---- MODULE Spec2Model ----
(***************************************************************************)
(* A model of src/main.py of telegram-twitter: the acquisition pipeline    *)
(* (download_with_yt_dlp and the functions it calls) and the aiogram       *)
(* message handler that drives it (handle_message).                        *)
(*                                                                         *)
(* Strings are modelled as sequences of chunks.  A chunk is a maximal run  *)
(* of characters the code never looks inside (a word such as "graphql"),  *)
(* or one character the code does look at (",", " ", ":", a digit).       *)
(***************************************************************************)
EXTENDS Integers, Sequences, FiniteSets, TLC

VARIABLES
    input,      \* the arguments of the function a function-level specification applies
    output,     \* its result, NotCalled before the call
    environ,    \* os.environ: the variables the program reads
    call,       \* per message: its download_with_yt_dlp call, <<>> or <<the call's state>>
    pc,         \* per message: the position of its handle_message coroutine
    todo,       \* per message: how many of its URLs are not processed yet
    tmp_dir,    \* per message: its TemporaryDirectory, <<>> or <<content>>
    artifact,   \* per message: handle_message's `path`, <<>> or <<the path returned>>
    loop,       \* the coroutine the event loop is running (0: the loop is free)
    cookiefile, \* per message: ydl_opts["cookiefile"] of its latest attempt, while its
                \* directory exists
    cookie_store \* the file YTDLP_COOKIES_FILE names: "original" or "rewritten"

vars == <<input, output, environ, call, pc, todo, tmp_dir, artifact, loop, cookiefile,
         cookie_store>>

----------------------------------------------------------------------------
(* Bounds *)

MaxOrderLen == 4    \* chunks in YTDLP_TWITTER_API_ORDER
MaxSarLen == 3      \* chunks in a probed sample_aspect_ratio
NumMsgs == 2        \* messages handled concurrently
MaxUrls == 2        \* URLs in one message
MaxNetlocLen == 3   \* chunks in the netloc of a URL

----------------------------------------------------------------------------
(* Python values *)

\* None, and a value that is not None, for `str | None`
None == [some |-> FALSE, val |-> <<>>]
Some(s) == [some |-> TRUE, val |-> s]

\* Python truthiness of a `str | None`
Truthy(v) == v.some /\ v.val # <<>>

\* a or b, on `str | None`
Or(a, b) == IF Truthy(a) THEN a ELSE b

SeqsUpTo(S, n) == UNION {[1..k -> S] : k \in 0..n}

\* a path of a cookie file: the directory it is in (<<>>: where the operator put
\* it) and its name
CookiePath(dir, name) == [dir |-> dir, name |-> name]

\* ydl_opts without "cookiefile", and with it
NoCookiefile == [some |-> FALSE, val |-> CookiePath(<<>>, <<>>)]
SomeCookiefile(p) == [some |-> TRUE, val |-> p]

\* str.strip(): leading and trailing whitespace removed
RECURSIVE LStrip(_)
LStrip(s) == IF s # <<>> /\ Head(s) = " " THEN LStrip(Tail(s)) ELSE s

RECURSIVE RStrip(_)
RStrip(s) ==
    IF s # <<>> /\ s[Len(s)] = " " THEN RStrip(SubSeq(s, 1, Len(s) - 1)) ELSE s

Strip(s) == RStrip(LStrip(s))

\* str.split(sep): the pieces between the separators, one more than there are
\* separators ("".split(",") is [""])
RECURSIVE Split(_, _)
Split(s, sep) ==
    IF \A i \in 1..Len(s) : s[i] # sep
    THEN <<s>>
    ELSE LET i == CHOOSE j \in 1..Len(s) :
                      s[j] = sep /\ \A k \in 1..(j - 1) : s[k] # sep
         IN  <<SubSeq(s, 1, i - 1)>> \o Split(SubSeq(s, i + 1, Len(s)), sep)

----------------------------------------------------------------------------
(* URLs and is_twitter_url *)

\* A URL: whether urlparse accepts it, and its netloc in chunks.
Url(netloc) == [parses |-> TRUE, netloc |-> netloc]
BadUrl == [parses |-> FALSE, netloc |-> <<>>]

\* str.lower() on the chunks of a host
Lower(c) ==
    CASE c = "WWW." -> "www."
      [] c = "X.COM" -> "x.com"
      [] c = "Twitter.com" -> "twitter.com"
      [] OTHER -> c

LowerAll(s) == [i \in 1..Len(s) |-> Lower(s[i])]

\* str.removeprefix("www.")
RemoveWww(s) == IF s # <<>> /\ Head(s) = "www." THEN Tail(s) ELSE s

TwitterHosts ==
    { <<"twitter.com">>, <<"x.com">>,
      <<"mobile.", "twitter.com">>, <<"mobile.", "x.com">> }

is_twitter_url(u) ==
    IF ~u.parses
    THEN FALSE  \* except Exception: return False
    ELSE RemoveWww(LowerAll(u.netloc)) \in TwitterHosts

----------------------------------------------------------------------------
(* The strategy plan: download_with_yt_dlp, lines 236-249 *)

DefaultOrder == <<"graphql", ",", "legacy", ",", "syndication">>

\* os.getenv(name, default)
Getenv(env, name, default) == IF env[name].some THEN env[name].val ELSE default

\* [part.strip() for part in twitter_api_order.split(",") if part.strip()]
StrippedParts(order) ==
    LET parts == Split(order, ",")
        Keep(i) == Strip(parts[i]) # <<>>
        RECURSIVE Build(_)
        Build(i) ==
            IF i > Len(parts) THEN <<>>
            ELSE (IF Keep(i) THEN <<Some(Strip(parts[i]))>> ELSE <<>>) \o Build(i + 1)
    IN  Build(1)

\* the fallback taken to be the default order again
FallbackCandidates_default_order(env) == StrippedParts(DefaultOrder)

\* the fallback when the order holds no label:
\* os.getenv("YTDLP_TWITTER_API") or os.getenv("TWITTER_API") or "syndication"
FallbackCandidates(env) ==
    << Or(env["YTDLP_TWITTER_API"], Or(env["TWITTER_API"], Some(<<"syndication">>))) >>

\* the candidates without the fallback for an order that holds no label
api_candidates_no_fallback(env) ==
    StrippedParts(Getenv(env, "YTDLP_TWITTER_API_ORDER", DefaultOrder))

api_candidates(env) ==
    LET cands == StrippedParts(Getenv(env, "YTDLP_TWITTER_API_ORDER", DefaultOrder))
    IN  IF cands = <<>> THEN FallbackCandidates(env) ELSE cands

\* the candidates tried for every URL
plan_attempts_any_url(env, u) == api_candidates(env)

\* attempts = api_candidates if is_twitter_url(url) else [None]
plan_attempts(env, u) == IF is_twitter_url(u) THEN api_candidates(env) ELSE <<None>>

----------------------------------------------------------------------------
(* Paths and the file system *)

\* A pathlib.Path inside the working directory: Path.stem in chunks, Path.suffix.
File(stem, suffix) == [stem |-> stem, suffix |-> suffix]

\* A directory's content: a function from the paths that exist to their st_size.
NoFiles == [p \in {} |-> 0]
Exists(fs, p) == p \in DOMAIN fs
WriteFile(fs, p, size) == [q \in DOMAIN fs \cup {p} |-> IF q = p THEN size ELSE fs[q]]

\* str.lower() on a suffix
LowerSuffix(x) ==
    CASE x = ".MP4" -> ".mp4"
      [] x = ".WEBM" -> ".webm"
      [] OTHER -> x

\* Path.with_suffix(".mp4")
WithSuffixMp4(path) == File(path.stem, ".mp4")

normalize_download_path(path, fs) ==
    IF LowerSuffix(path.suffix) # ".mp4" /\ Exists(fs, path)
    THEN IF Exists(fs, WithSuffixMp4(path)) THEN WithSuffixMp4(path) ELSE path
    ELSE path

----------------------------------------------------------------------------
(* Exceptions and call results *)

\* An exception: its type and message, the length of the tool output it quotes,
\* and the iteration of download_with_yt_dlp's loop that raised it (0: none).
Exc(type, msg) == [type |-> type, msg |-> msg, detail |-> 0, at |-> 0]
NoExc == Exc("", "")

\* how a call ended: it returned `value`, or it raised `exc`
Returned(v) == [raised |-> FALSE, value |-> v, exc |-> NoExc]
Raised(e, none) == [raised |-> TRUE, value |-> none, exc |-> e]

----------------------------------------------------------------------------
(* get_video_info, lines 123-152 *)

\* an optional integer field of the stream dict
NoInt == [some |-> FALSE, val |-> 0]
SomeInt(n) == [some |-> TRUE, val |-> n]

\* the stream dict: the keys it has, and their values
Stream(w, h, sar) == [width |-> w, height |-> h, sample_aspect_ratio |-> sar]
EmptyInfo == Stream(NoInt, NoInt, None)     \* {}

\* What running ffprobe can do.
\*   tool:   whether shutil.which("ffprobe") or /usr/local/bin/ffprobe exists
\*   run:    "timeout" (subprocess.TimeoutExpired after 30 s) or "exit"
\*   code:   the return code
\*   stdout: "garbage" (not JSON), "not_object" (JSON, but no object),
\*           "no_streams_key" ({}), "empty_streams" ({"streams": []}), "stream"
\*   stream: the first stream, when stdout = "stream"
Probe(tool, run, code, stdout, stream) ==
    [tool |-> tool, run |-> run, code |-> code, stdout |-> stdout, stream |-> stream]

get_video_info(probe) ==
    IF ~probe.tool
    THEN Raised(Exc("RuntimeError", "ffprobe not found"), EmptyInfo)
    ELSE IF probe.run = "timeout"
    THEN Raised(Exc("TimeoutExpired", "ffprobe"), EmptyInfo)  \* not caught
    ELSE IF probe.code # 0
    THEN Returned(EmptyInfo)
    ELSE CASE probe.stdout = "garbage" -> Returned(EmptyInfo)   \* JSONDecodeError
           [] probe.stdout = "not_object" ->                     \* data.get: not caught
                  Raised(Exc("AttributeError", "get"), EmptyInfo)
           [] probe.stdout = "no_streams_key" -> Returned(EmptyInfo)  \* [{}][0]
           [] probe.stdout = "empty_streams" -> Returned(EmptyInfo)   \* IndexError
           [] OTHER -> Returned(probe.stream)

----------------------------------------------------------------------------
(* The SAR check of transcode_to_hevc, lines 176-194 *)

Digits == {"0", "1", "3", "4", "5"}

DigitVal(c) ==
    CASE c = "0" -> 0 [] c = "1" -> 1 [] c = "3" -> 3 [] c = "4" -> 4 [] OTHER -> 5

RECURSIVE DecimalVal(_)
DecimalVal(s) ==
    IF s = <<>> THEN 0
    ELSE 10 * DecimalVal(SubSeq(s, 1, Len(s) - 1)) + DigitVal(s[Len(s)])

\* int(s): whitespace stripped, an optional sign, then one or more digits;
\* anything else is a ValueError
ParseInt(s) ==
    LET t == Strip(s)
        signed == t # <<>> /\ Head(t) \in {"-", "+"}
        body == IF signed THEN Tail(t) ELSE t
        ok == body # <<>> /\ \A i \in 1..Len(body) : body[i] \in Digits
    IN  [ok |-> ok,
         val |-> IF ~ok THEN 0
                 ELSE IF signed /\ Head(t) = "-" THEN 0 - DecimalVal(body)
                 ELSE DecimalVal(body)]

SarOneOne == <<"1", ":", "1">>
SarExcluded == { SarOneOne, <<"N/A">>, <<"0", ":", "1">>, <<>> }

\* video_info.get("sample_aspect_ratio", "1:1")
SarOf(video_info) ==
    IF video_info.sample_aspect_ratio.some
    THEN video_info.sample_aspect_ratio.val
    ELSE SarOneOne

\* the check with the numerator test dropped
needs_sar_fix_any_ratio(sar) ==
    IF sar # <<>> /\ sar \notin SarExcluded
    THEN LET sar_parts == Split(sar, ":")
         IN  /\ Len(sar_parts) = 2
             /\ ParseInt(sar_parts[1]).ok /\ ParseInt(sar_parts[2]).ok
             /\ ParseInt(sar_parts[2]).val > 0
    ELSE FALSE

\* the check with a zero numerator taken for "unknown", as "0:1" is
needs_sar_fix_zero_num(sar) ==
    IF sar # <<>> /\ sar \notin SarExcluded
    THEN LET sar_parts == Split(sar, ":")
         IN  /\ Len(sar_parts) = 2
             /\ ParseInt(sar_parts[1]).ok /\ ParseInt(sar_parts[2]).ok
             /\ ParseInt(sar_parts[2]).val > 0
             /\ ParseInt(sar_parts[1]).val # 0
             /\ ParseInt(sar_parts[1]).val # ParseInt(sar_parts[2]).val
    ELSE FALSE

needs_sar_fix(sar) ==
    IF sar # <<>> /\ sar \notin SarExcluded
    THEN LET sar_parts == Split(sar, ":")
         IN  IF Len(sar_parts) = 2
             THEN LET sar_num == ParseInt(sar_parts[1])
                      sar_den == ParseInt(sar_parts[2])
                  IN  IF sar_num.ok /\ sar_den.ok   \* else ValueError: pass
                      THEN sar_den.val > 0 /\ sar_num.val # sar_den.val
                      ELSE FALSE
             ELSE FALSE
    ELSE FALSE

\* the ffmpeg arguments between the input and the output path
SarFixArgs ==
    << "-vf", "scale='trunc(iw*sar/2)*2:trunc(ih/2)*2',setsar=1",
       "-c:v", "libx264", "-preset", "ultrafast", "-crf", "18",
       "-c:a", "copy", "-movflags", "+faststart" >>
RemuxArgs == << "-c", "copy", "-movflags", "+faststart" >>

ffmpeg_args(video_info) ==
    IF needs_sar_fix(SarOf(video_info)) THEN SarFixArgs ELSE RemuxArgs

----------------------------------------------------------------------------
(* transcode_to_hevc, lines 155-231 *)

StderrLimit == 500      \* e.stderr[:500]

Min(a, b) == IF a < b THEN a ELSE b

\* the whole of the tool's output quoted
stderr_whole(n) == n

\* len(e.stderr[:500]) for an e.stderr of n characters
stderr_head(n) == Min(n, StderrLimit)

\* What running ffmpeg can do.
\*   kind:   "ok", "timeout" (TimeoutExpired after 300 s), "failed" (CalledProcessError)
\*   stderr: len(e.stderr)
\*   writes: whether it leaves a file at the output path;  size: that file's st_size
Run(kind, stderr, writes, size) ==
    [kind |-> kind, stderr |-> stderr, writes |-> writes, size |-> size]

\* The surroundings of one transcode_to_hevc call: whether ffmpeg is installed,
\* the size the input has when it is looked at, what ffprobe and ffmpeg do.
Tools(ffmpeg, probe, run) == [ffmpeg |-> ffmpeg, probe |-> probe, run |-> run]

\* output_dir / f"{path.stem}.fixed.mp4"
OutputPath(path) == File(path.stem \o <<".fixed">>, ".mp4")

NotProbed == [raised |-> FALSE, value |-> EmptyInfo, exc |-> Exc("", "not called")]

\* The result: raised/exc, or value (the output path); fs, the directory afterwards;
\* video_info, how the get_video_info call ended; cmd, the ffmpeg arguments.
TranscodeEnd(raised, e, value, fs, video_info, cmd) ==
    [raised |-> raised, exc |-> e, value |-> value, fs |-> fs,
     video_info |-> video_info, cmd |-> cmd]

transcode_to_hevc(path, fs, tools) ==
    LET output_path == OutputPath(path)
        Fail(e, fs2, info, cmd) == TranscodeEnd(TRUE, e, output_path, fs2, info, cmd)
        info == get_video_info(tools.probe)
        cmd == ffmpeg_args(info.value)
        after == IF tools.run.writes
                 THEN WriteFile(fs, output_path, tools.run.size)
                 ELSE fs
    IN  IF ~tools.ffmpeg
        THEN Fail(Exc("RuntimeError", "ffmpeg not found"), fs, NotProbed, <<>>)
        ELSE IF ~Exists(fs, path)
        THEN Fail(Exc("RuntimeError", "Input file does not exist"), fs, NotProbed, <<>>)
        ELSE IF fs[path] = 0
        THEN Fail(Exc("RuntimeError", "Input file is empty"), fs, NotProbed, <<>>)
        ELSE IF info.raised
        THEN Fail(info.exc, fs, info, <<>>)
        ELSE IF tools.run.kind = "timeout"
        THEN Fail(Exc("RuntimeError", "ffmpeg timed out after 5 minutes"), after, info, cmd)
        ELSE IF tools.run.kind = "failed"
        THEN Fail([Exc("RuntimeError", "ffmpeg failed")
                      EXCEPT !.detail = stderr_head(tools.run.stderr)],
                  after, info, cmd)
        ELSE IF ~Exists(after, output_path)
        THEN Fail(Exc("RuntimeError", "ffmpeg did not produce output file"), after, info, cmd)
        ELSE TranscodeEnd(FALSE, NoExc, output_path, after, info, cmd)

----------------------------------------------------------------------------
(* Input sets *)

EnvNames ==
    { "YTDLP_TWITTER_API_ORDER", "YTDLP_TWITTER_API", "TWITTER_API",
      "YTDLP_COOKIES_FILE", "TELEGRAM_LOCAL_API_URL" }

\* an environment with none of the variables set
NoEnv == [n \in EnvNames |-> None]

TwitterUrl == Url(<<"twitter.com">>)
Urls == { TwitterUrl, Url(<<"WWW.", "X.COM">>), Url(<<"youtube.com">>), BadUrl }

OrderChunks == {"graphql", "legacy", ",", " "}
Orders == {None} \cup {Some(s) : s \in SeqsUpTo(OrderChunks, MaxOrderLen)}

Suffixes == {"", ".webm", ".WEBM", ".mkv", ".mp4", ".MP4"}
Clips == {File(<<"clip">>, x) : x \in Suffixes}
\* every directory content over the clip files, one byte each
ClipDirs == UNION {[D -> {1}] : D \in SUBSET Clips}

SarChunks == Digits \cup {":", "-", " ", "N/A"}
Sars == {None} \cup {Some(s) : s \in SeqsUpTo(SarChunks, MaxSarLen)}
Dims == {NoInt, SomeInt(0), SomeInt(1920)}

Sar43 == <<"4", ":", "3">>
Sar05 == <<"0", ":", "5">>
FewSars == {None, Some(SarOneOne), Some(Sar43), Some(Sar05), Some(<<"N/A">>)}
FewStreams == {Stream(w, w, sar) : w \in Dims, sar \in FewSars}

ProbeOk(stream) == Probe(TRUE, "exit", 0, "stream", stream)
ProbeFailures ==
    { Probe(FALSE, "exit", 0, "stream", EmptyInfo),      \* ffprobe not installed
      Probe(TRUE, "timeout", 0, "stream", EmptyInfo),    \* no answer within 30 s
      Probe(TRUE, "exit", 1, "garbage", EmptyInfo) }     \* non-zero exit
    \cup { Probe(TRUE, "exit", 0, out, EmptyInfo) :
              out \in {"garbage", "not_object", "no_streams_key", "empty_streams"} }
Probes == ProbeFailures \cup {ProbeOk(st) : st \in FewStreams}

HostedMax == 50 * 1024 * 1024
LocalMax == 2000 * 1024 * 1024
Sizes == {0, 1, HostedMax, HostedMax + 1, LocalMax, LocalMax + 1}
StderrLens == {0, StderrLimit - 1, StderrLimit, StderrLimit + 1}

Runs ==
    {Run("ok", 0, w, sz) : w \in BOOLEAN, sz \in Sizes}
    \cup {Run("timeout", 0, w, 0) : w \in BOOLEAN}
    \cup {Run("failed", n, w, 0) : n \in StderrLens, w \in BOOLEAN}

\* the directory as a download can leave it: the input there or not, empty or not
InputDirs(path) == {NoFiles} \cup {WriteFile(NoFiles, path, sz) : sz \in {0, 1}}

----------------------------------------------------------------------------
(* Function-level specifications: Init draws the arguments, the action applies *)
(* the function and records how the call ended.                                *)

NotCalled == <<>>
Called == output # NotCalled
Out == output[1]

\* the handler's state while no message is being handled
Msgs == 1..NumMsgs

NoCall == <<>>

HandlerIdle ==
    /\ call = [m \in Msgs |-> NoCall]
    /\ pc = [m \in Msgs |-> "done"]
    /\ todo = [m \in Msgs |-> 0]
    /\ tmp_dir = [m \in Msgs |-> <<>>]
    /\ artifact = [m \in Msgs |-> <<>>]
    /\ loop = 0
    /\ cookiefile = [m \in Msgs |-> NoCookiefile]
    /\ cookie_store = "original"

handlerVars == <<call, pc, todo, tmp_dir, artifact, loop, cookiefile, cookie_store>>

Idle == HandlerIdle
idleVars == handlerVars

\* the strategy plan as a function of the environment and the URL
InitClassify ==
    /\ \E order \in Orders, api \in {None, Some(<<>>), Some(<<"legacy">>)},
          tw \in {None, Some(<<"graphql">>)} :
          environ = [NoEnv EXCEPT !["YTDLP_TWITTER_API_ORDER"] = order,
                                  !["YTDLP_TWITTER_API"] = api,
                                  !["TWITTER_API"] = tw]
    /\ input \in Urls
    /\ output = NotCalled
    /\ Idle

Classify ==
    /\ ~Called
    /\ output' = <<plan_attempts(environ, input)>>
    /\ UNCHANGED <<input, environ, idleVars>>

SpecClassify == InitClassify /\ [][Classify]_vars

\* normalize_download_path as a function of the declared file name and the directory
InitNormalize ==
    /\ \E path \in Clips, fs \in ClipDirs : input = [path |-> path, fs |-> fs]
    /\ output = NotCalled
    /\ environ = NoEnv
    /\ Idle

Normalize ==
    /\ ~Called
    /\ output' = <<normalize_download_path(input.path, input.fs)>>
    /\ UNCHANGED <<input, environ, idleVars>>

SpecNormalize == InitNormalize /\ [][Normalize]_vars

\* transcode_to_hevc as a function of the input file and of what the tools do
InitTranscode ==
    /\ \E path \in {File(<<"clip">>, ".mp4"), File(<<"clip">>, ".webm")},
          ffmpeg \in BOOLEAN, probe \in Probes, run \in Runs :
          \E fs \in InputDirs(path) :
              input = [path |-> path, fs |-> fs, tools |-> Tools(ffmpeg, probe, run)]
    /\ output = NotCalled
    /\ environ = NoEnv
    /\ Idle

Transcode ==
    /\ ~Called
    /\ output' = <<transcode_to_hevc(input.path, input.fs, input.tools)>>
    /\ UNCHANGED <<input, environ, idleVars>>

SpecTranscode == InitTranscode /\ [][Transcode]_vars

\* the ffmpeg arguments as a function of the probed stream
InitDecide ==
    /\ \E w \in Dims, h \in Dims, sar \in Sars : input = Stream(w, h, sar)
    /\ output = NotCalled
    /\ environ = NoEnv
    /\ Idle

Decide ==
    /\ ~Called
    /\ output' = <<ffmpeg_args(input)>>
    /\ UNCHANGED <<input, environ, idleVars>>

SpecDecide == InitDecide /\ [][Decide]_vars

----------------------------------------------------------------------------
(* build_ydl_opts, lines 96-102, and download_with_yt_dlp, lines 234-273 *)

CookiesTxt == File(<<"cookies">>, ".txt")

\* the directory after build_ydl_opts: the cookie file copied into it when
\* YTDLP_COOKIES_FILE is set and the file is there
build_ydl_opts(fs, env, cookies_exist) ==
    IF Truthy(env["YTDLP_COOKIES_FILE"]) /\ cookies_exist
    THEN WriteFile(fs, CookiesTxt, 1)
    ELSE fs

\* the file YTDLP_COOKIES_FILE names
SharedCookies(env) == CookiePath(<<>>, env["YTDLP_COOKIES_FILE"].val)

\* output_dir / "cookies.txt" (line 99)
PrivateCookies(output_dir) == CookiePath(output_dir, <<"cookies.txt">>)

\* the downloader pointed at the operator's cookie file itself
cookiefile_in_place(output_dir, env, cookies_exist) ==
    IF Truthy(env["YTDLP_COOKIES_FILE"]) /\ cookies_exist
    THEN SomeCookiefile(SharedCookies(env))
    ELSE NoCookiefile

\* ydl_opts["cookiefile"] (lines 96-101): the copy in output_dir, or not set
cookiefile_opt(output_dir, env, cookies_exist) ==
    IF Truthy(env["YTDLP_COOKIES_FILE"]) /\ cookies_exist
    THEN SomeCookiefile(PrivateCookies(output_dir))
    ELSE NoCookiefile

\* `with yt_dlp.YoutubeDL(ydl_opts) as ydl` (line 257): on leaving, yt-dlp saves
\* its cookie jar to the cookiefile it was given; the shared file after that
save_cookies(store, env, given) ==
    IF given.some /\ given.val = SharedCookies(env) THEN "rewritten" ELSE store

\* What yt-dlp does: whether extract_info returns, the name prepare_filename
\* declares, and the files it leaves in the directory.
Download(ok, filename, writes) == [ok |-> ok, filename |-> filename, writes |-> writes]

\* The surroundings of one iteration: whether the cookie file is there, what
\* yt-dlp does, what the tools do.
World(cookies_exist, dl, tools) ==
    [cookies_exist |-> cookies_exist, dl |-> dl, tools |-> tools]

Merge(fs, writes) ==
    [q \in DOMAIN fs \cup DOMAIN writes |-> IF q \in DOMAIN writes THEN writes[q] ELSE fs[q]]

NoPath == File(<<>>, "")

\* lines 255-264, the body of the try: how it ended (a transcode_to_hevc result)
try_download(fs, env, w) ==
    LET fs1 == Merge(build_ydl_opts(fs, env, w.cookies_exist), w.dl.writes)
    IN  IF ~w.dl.ok
        THEN TranscodeEnd(TRUE, Exc("DownloadError", "yt-dlp"), NoPath, fs1, NotProbed, <<>>)
        ELSE transcode_to_hevc(normalize_download_path(w.dl.filename, fs1), fs1, w.tools)

\* How a download_with_yt_dlp call ended: raised/exc, or value (the path) and
\* `at`, the iteration that returned it.
NoResult == [raised |-> FALSE, value |-> NoPath, exc |-> NoExc, at |-> 0]

\* last_error = exc, with the first error kept instead
record_error_keep_first(last, e) == IF last = NoExc THEN e ELSE last

\* last_error = exc (line 267)
record_error(last, e) == e

\* the success path ending in the after-loop check instead of a return
return_path_unless_error(p, at, last) ==
    IF last # NoExc
    THEN [raised |-> TRUE, value |-> NoPath, exc |-> last, at |-> 0]
    ELSE [raised |-> FALSE, value |-> p, exc |-> NoExc, at |-> at]

\* return transcode_to_hevc(downloaded, output_dir) (line 264)
return_path(p, at, last) == [raised |-> FALSE, value |-> p, exc |-> NoExc, at |-> at]

\* lines 271-273
raise_after_loop(last) ==
    [raised |-> TRUE, value |-> NoPath,
     exc |-> IF last # NoExc THEN last ELSE Exc("RuntimeError", "Download failed"),
     at |-> 0]

\* lines 236-250: the call entered.  pc is "attempt" (the next iteration of
\* `for api in attempts`), "after_loop" or "ended"; tried lists the api of every
\* iteration run and whether its try body got through; fs is the content of
\* output_dir.
enter_call(u, env, fs) ==
    [pc |-> IF plan_attempts(env, u) = <<>> THEN "after_loop" ELSE "attempt",
     url |-> u, attempts |-> plan_attempts(env, u), made |-> 0, tried |-> <<>>,
     last_error |-> NoExc, result |-> NoResult, fs |-> fs]

\* the iteration run again on the strategy that has just failed
next_api_again(attempts, made) == IF made = 0 THEN 1 ELSE made

\* `for api in attempts` (line 252): the index of the api of the next iteration,
\* after `made` iterations
next_api(attempts, made) == made + 1

\* a failure after the download (normalizing, probing, transcoding) ending the loop
after_failure_abort_post_download(u, e, at, n) ==
    IF ~is_twitter_url(u) \/ e.type # "DownloadError" THEN "after_loop"
    ELSE IF at < n THEN "attempt"
    ELSE "after_loop"

\* lines 265-269 and 252: where the call goes after iteration `at` of n raised e,
\* whatever e is (`except Exception`)
after_failure(u, e, at, n) ==
    IF ~is_twitter_url(u) THEN "after_loop"    \* break
    ELSE IF at < n THEN "attempt"
    ELSE "after_loop"

\* lines 252-269: one iteration of `for api in attempts`, in the surroundings w;
\* tried gets the api of the iteration, whether yt-dlp delivered, and whether
\* the try body got through
attempt_step(c, env, w) ==
    LET at == next_api(c.attempts, c.made)
        t == try_download(c.fs, env, w)
        ran == [c EXCEPT !.made = c.made + 1, !.fs = t.fs,
                         !.tried = Append(c.tried, [api |-> c.attempts[at],
                                                    downloaded |-> w.dl.ok,
                                                    ok |-> ~t.raised])]
    IN  IF ~t.raised
        THEN [ran EXCEPT !.result = return_path(t.value, at, c.last_error),
                         !.pc = "ended"]
        ELSE [ran EXCEPT !.last_error = record_error(c.last_error, [t.exc EXCEPT !.at = at]),
                         !.pc = after_failure(c.url, t.exc, ran.made, Len(c.attempts))]

\* lines 271-273: the loop left without a return
after_loop_step(c) ==
    [c EXCEPT !.result = raise_after_loop(c.last_error), !.pc = "ended"]

----------------------------------------------------------------------------
(* One download_with_yt_dlp call, iteration by iteration *)

MainUrls == { TwitterUrl, Url(<<"youtube.com">>), BadUrl }
HandlerUrls == { TwitterUrl, Url(<<"youtube.com">>) }

MainOrders ==
    { None, Some(<<" ", ",">>), Some(<<"legacy", ",", "graphql">>),
      Some(<<"legacy", ",", "legacy">>) }

\* the environments the handler is run in, and those one call is followed in
HandlerEnvirons ==
    { NoEnv,
      [NoEnv EXCEPT !["YTDLP_COOKIES_FILE"] = Some(<<"cookies.txt">>)],
      [NoEnv EXCEPT !["TELEGRAM_LOCAL_API_URL"] = Some(<<"http://localhost:8081">>)] }
Environs ==
    HandlerEnvirons
    \cup {[NoEnv EXCEPT !["YTDLP_TWITTER_API_ORDER"] = order] : order \in MainOrders}

Webm == File(<<"clip">>, ".webm")
Mp4 == File(<<"clip">>, ".mp4")
Part == File(<<"clip">>, ".part")

One(p, size) == WriteFile(NoFiles, p, size)

Downloads ==
    { Download(FALSE, Webm, NoFiles),           \* extraction failed
      Download(FALSE, Webm, One(Part, 1)),      \* the transfer broke off
      Download(TRUE, Mp4, One(Mp4, 1)),         \* an mp4, as declared
      Download(TRUE, Mp4, One(Mp4, 0)),         \* an empty file
      Download(TRUE, Webm, One(Webm, 1)),       \* a webm, not remuxed
      Download(TRUE, Webm, One(Mp4, 1)),        \* a webm remuxed to mp4
      Download(TRUE, Webm, NoFiles) }           \* nothing where it was declared

\* what the tools do in one iteration: ffmpeg missing; the probe raising; or the
\* probe answering (or failing quietly) and ffmpeg running
MainProbes ==
    { ProbeOk(Stream(SomeInt(1920), SomeInt(1920), Some(SarOneOne))),
      ProbeOk(Stream(SomeInt(1920), SomeInt(1920), Some(Sar43))),
      Probe(TRUE, "exit", 1, "garbage", EmptyInfo) }

MainRuns ==
    { Run("ok", 0, TRUE, 1), Run("ok", 0, TRUE, 0), Run("ok", 0, FALSE, 0),
      Run("ok", 0, TRUE, HostedMax + 1), Run("ok", 0, TRUE, LocalMax + 1),
      Run("timeout", 0, TRUE, 0), Run("failed", StderrLimit + 1, FALSE, 0) }

NoRun == Run("ok", 0, FALSE, 0)

MainTools ==
    { Tools(FALSE, ProbeOk(EmptyInfo), NoRun),
      Tools(TRUE, Probe(TRUE, "timeout", 0, "stream", EmptyInfo), NoRun),
      Tools(TRUE, Probe(FALSE, "exit", 0, "stream", EmptyInfo), NoRun) }
    \cup {Tools(TRUE, probe, run) : probe \in MainProbes, run \in MainRuns}

Worlds == {World(c, dl, tools) : c \in BOOLEAN, dl \in Downloads, tools \in MainTools}

\* what one iteration meets while messages are handled side by side
OkTools(size) == Tools(TRUE, ProbeOk(Stream(SomeInt(1920), SomeInt(1920), Some(SarOneOne))),
                       Run("ok", 0, TRUE, size))
HandlerWorlds ==
    { World(TRUE, Download(FALSE, Webm, One(Part, 1)), OkTools(1)),
      World(TRUE, Download(TRUE, Mp4, One(Mp4, 1)), OkTools(1)),
      World(TRUE, Download(TRUE, Mp4, One(Mp4, 1)), OkTools(HostedMax + 1)),
      World(TRUE, Download(TRUE, Mp4, One(Mp4, 1)),
            Tools(TRUE, ProbeOk(EmptyInfo), Run("failed", 1, FALSE, 0))),
      World(TRUE, Download(TRUE, Mp4, One(Mp4, 1)),
            Tools(TRUE, ProbeOk(EmptyInfo), Run("ok", 0, FALSE, 0))) }

----------------------------------------------------------------------------
(* handle_message, lines 287-354, one coroutine per message.  A coroutine    *)
(* runs only while it holds the event loop; it lets go of the loop at every  *)
(* await, and download_with_yt_dlp is called without one.                    *)

\* TemporaryDirectory.__exit__ that removes the directory only when it is empty
exit_tmp_dir_rmdir(d) == IF d = <<NoFiles>> THEN <<>> ELSE d

\* TemporaryDirectory.__exit__: the directory and all it holds removed
exit_tmp_dir(d) == <<>>

\* max_size (line 331)
max_size(env) == IF Truthy(env["TELEGRAM_LOCAL_API_URL"]) THEN LocalMax ELSE HostedMax

\* the size test with the ceiling itself taken to be too large
fits_below(file_size, env) == file_size < max_size(env)

\* line 334 is `if file_size > max_size:`; the artifact fits when that is false
fits(file_size, env) == ~(file_size > max_size(env))

\* the path returned forwarded without a look at it
delivery_gate_unchecked(fs, p, env) == "await_send_video"

\* lines 320-343: where handle_message goes with the path returned, in the
\* directory fs
delivery_gate(fs, p, env) ==
    IF ~Exists(fs, p) THEN "await_failed_edit"
    ELSE IF ~fits(fs[p], env) THEN "await_too_large_edit"
    ELSE "await_send_video"

Init ==
    /\ input = <<>>
    /\ output = NotCalled
    /\ environ \in HandlerEnvirons
    /\ call = [m \in Msgs |-> NoCall]
    /\ pc = [m \in Msgs |-> "new"]
    /\ todo = [m \in Msgs |-> 0]
    /\ tmp_dir = [m \in Msgs |-> <<>>]
    /\ artifact = [m \in Msgs |-> <<>>]
    /\ loop = 0
    /\ cookiefile = [m \in Msgs |-> NoCookiefile]
    /\ cookie_store = "original"

fnVars == <<input, output, environ>>

\* what no step of a handler outside the download changes
fixedVars == <<fnVars, cookie_store>>

\* the next round of `for url in urls`, or the end of the handler.  What the
\* message's URLs are is read only when download_with_yt_dlp is entered, and is
\* drawn there.
NextUrl(m) ==
    IF todo[m] > 1
    THEN /\ todo' = [todo EXCEPT ![m] = todo[m] - 1]
         /\ pc' = [pc EXCEPT ![m] = "await_status"]
    ELSE /\ todo' = [todo EXCEPT ![m] = 0]
         /\ pc' = [pc EXCEPT ![m] = "done"]

\* lines 288-309: the dispatcher starts the handler on a message with text; it
\* runs to its first await
Receive(m) ==
    /\ pc[m] = "new" /\ loop = 0
    /\ \E allowed \in BOOLEAN, n \in 0..MaxUrls :
          IF ~allowed \/ n = 0
          THEN /\ pc' = [pc EXCEPT ![m] = "await_reply"]  \* "Access denied." / "No URL found."
               /\ UNCHANGED todo
          ELSE /\ pc' = [pc EXCEPT ![m] = "await_status"]
               /\ todo' = [todo EXCEPT ![m] = n]
    /\ UNCHANGED <<fixedVars, call, tmp_dir, artifact, loop, cookiefile>>

\* lines 298-299, 304-305: the answer is out (or failed), the handler returns
Replied(m) ==
    /\ pc[m] = "await_reply" /\ loop = 0
    /\ pc' = [pc EXCEPT ![m] = "done"]
    /\ UNCHANGED <<fixedVars, call, todo, tmp_dir, artifact, loop, cookiefile>>

\* line 309: status = await message.answer(...); outside the try, so a failure
\* ends the handler
StatusAnswered(m) ==
    /\ pc[m] = "await_status" /\ loop = 0
    /\ \E ok \in BOOLEAN :
          IF ok
          THEN /\ pc' = [pc EXCEPT ![m] = "await_chat_action"]
               /\ UNCHANGED todo
          ELSE /\ pc' = [pc EXCEPT ![m] = "done"]
               /\ todo' = [todo EXCEPT ![m] = 0]
    /\ UNCHANGED <<fixedVars, call, tmp_dir, artifact, loop, cookiefile>>

\* lines 312-318, 236-250: send_chat_action is over; the directory is made and
\* download_with_yt_dlp entered, on the event loop
ChatActionSent(m) ==
    /\ pc[m] = "await_chat_action" /\ loop = 0
    /\ \E ok \in BOOLEAN :
          IF ok
          THEN /\ tmp_dir' = [tmp_dir EXCEPT ![m] = <<NoFiles>>]
               /\ \E u \in HandlerUrls :
                     call' = [call EXCEPT ![m] = <<enter_call(u, environ, NoFiles)>>]
               /\ pc' = [pc EXCEPT ![m] = "downloading"]
               /\ loop' = m
          ELSE /\ pc' = [pc EXCEPT ![m] = "await_error_edit"]
               /\ UNCHANGED <<tmp_dir, call, loop>>
    /\ UNCHANGED <<fixedVars, todo, artifact, cookiefile>>

\* the name of the directory of line 316: one per message and URL
TmpDirName(m) == <<m, todo[m]>>

\* lines 252-269: one iteration of `for api in attempts`, in surroundings of W
AttemptIn(m, W) ==
    /\ pc[m] = "downloading" /\ loop = m
    /\ call[m][1].pc = "attempt"
    /\ \E w \in W :
          LET c == attempt_step(call[m][1], environ, w)
              given == cookiefile_opt(TmpDirName(m), environ, w.cookies_exist)
          IN  /\ call' = [call EXCEPT ![m] = <<c>>]
              /\ tmp_dir' = [tmp_dir EXCEPT ![m] = <<c.fs>>]
              /\ cookiefile' = [cookiefile EXCEPT ![m] = given]
              /\ cookie_store' = save_cookies(cookie_store, environ, given)
    /\ UNCHANGED <<fnVars, pc, todo, artifact, loop>>

Attempt(m) == AttemptIn(m, HandlerWorlds)

\* lines 271-273: the loop is over without a return
AfterLoop(m) ==
    /\ pc[m] = "downloading" /\ loop = m
    /\ call[m][1].pc = "after_loop"
    /\ call' = [call EXCEPT ![m] = <<after_loop_step(call[m][1])>>]
    /\ UNCHANGED <<fixedVars, pc, todo, tmp_dir, artifact, loop, cookiefile>>

\* lines 318, 349-352: download_with_yt_dlp raised; the with block is left and
\* the except clause awaits status.edit_text
AcquireFailed(m) ==
    /\ pc[m] = "downloading" /\ loop = m
    /\ call[m][1].pc = "ended" /\ call[m][1].result.raised
    /\ tmp_dir' = [tmp_dir EXCEPT ![m] = exit_tmp_dir(tmp_dir[m])]
    /\ cookiefile' = [cookiefile EXCEPT ![m] = NoCookiefile]
    /\ call' = [call EXCEPT ![m] = NoCall]
    /\ pc' = [pc EXCEPT ![m] = "await_error_edit"]
    /\ loop' = 0
    /\ UNCHANGED <<fixedVars, todo, artifact>>

\* lines 318-343: download_with_yt_dlp returned a path; the handler goes on to
\* its next await
Acquired(m) ==
    /\ pc[m] = "downloading" /\ loop = m
    /\ call[m][1].pc = "ended" /\ ~call[m][1].result.raised
    /\ LET p == call[m][1].result.value
           fs == tmp_dir[m][1]
       IN  /\ artifact' = [artifact EXCEPT ![m] = <<p>>]
           /\ pc' = [pc EXCEPT ![m] = delivery_gate(fs, p, environ)]
    /\ call' = [call EXCEPT ![m] = NoCall]
    /\ loop' = 0
    /\ UNCHANGED <<fixedVars, todo, tmp_dir, cookiefile>>

\* leaving the with block: the directory goes, and `path` with this round of the loop
LeaveWith(m) ==
    /\ tmp_dir' = [tmp_dir EXCEPT ![m] = exit_tmp_dir(tmp_dir[m])]
    /\ artifact' = [artifact EXCEPT ![m] = <<>>]
    /\ cookiefile' = [cookiefile EXCEPT ![m] = NoCookiefile]

\* lines 322-323, 336-339: status.edit_text inside the with block, then continue
Rejected(m) ==
    /\ pc[m] \in {"await_failed_edit", "await_too_large_edit"} /\ loop = 0
    /\ LeaveWith(m)
    /\ \E ok \in BOOLEAN :
          IF ok
          THEN NextUrl(m)
          ELSE /\ pc' = [pc EXCEPT ![m] = "await_error_edit"]
               /\ UNCHANGED todo
    /\ UNCHANGED <<fixedVars, call, loop>>

\* lines 342-346: send_video is over
VideoSent(m) ==
    /\ pc[m] = "await_send_video" /\ loop = 0
    /\ \E ok \in BOOLEAN :
          IF ok
          THEN /\ pc' = [pc EXCEPT ![m] = "await_delete"]
               /\ UNCHANGED <<tmp_dir, artifact, cookiefile>>
          ELSE /\ pc' = [pc EXCEPT ![m] = "await_error_edit"]
               /\ LeaveWith(m)
    /\ UNCHANGED <<fixedVars, call, todo, loop>>

\* lines 347-348: status.delete() is over, the with block is left
StatusDeleted(m) ==
    /\ pc[m] = "await_delete" /\ loop = 0
    /\ LeaveWith(m)
    /\ \E ok \in BOOLEAN :
          IF ok
          THEN NextUrl(m)
          ELSE /\ pc' = [pc EXCEPT ![m] = "await_error_edit"]
               /\ UNCHANGED todo
    /\ UNCHANGED <<fixedVars, call, loop>>

\* lines 351-354: the except clause's status.edit_text is over, or failed and
\* was logged
ErrorShown(m) ==
    /\ pc[m] = "await_error_edit" /\ loop = 0
    /\ NextUrl(m)
    /\ UNCHANGED <<fixedVars, call, tmp_dir, artifact, loop, cookiefile>>

Next ==
    \E m \in Msgs :
        \/ Receive(m)
        \/ Replied(m)
        \/ StatusAnswered(m)
        \/ ChatActionSent(m)
        \/ Attempt(m)
        \/ AfterLoop(m)
        \/ AcquireFailed(m)
        \/ Acquired(m)
        \/ Rejected(m)
        \/ VideoSent(m)
        \/ StatusDeleted(m)
        \/ ErrorShown(m)

Spec == Init /\ [][Next]_vars

----------------------------------------------------------------------------
(* One download_with_yt_dlp call on its own, in all the surroundings of Worlds *)

InitAcquire ==
    /\ input = <<>>
    /\ output = NotCalled
    /\ environ \in Environs
    /\ \E u \in MainUrls :
          call = [m \in Msgs |-> IF m = 1 THEN <<enter_call(u, environ, NoFiles)>>
                                  ELSE NoCall]
    /\ pc = [m \in Msgs |-> IF m = 1 THEN "downloading" ELSE "done"]
    /\ todo = [m \in Msgs |-> IF m = 1 THEN 1 ELSE 0]
    /\ tmp_dir = [m \in Msgs |-> IF m = 1 THEN <<NoFiles>> ELSE <<>>]
    /\ artifact = [m \in Msgs |-> <<>>]
    /\ loop = 1
    /\ cookiefile = [m \in Msgs |-> NoCookiefile]
    /\ cookie_store = "original"

AttemptAnywhere == AttemptIn(1, Worlds)
CallOver == AfterLoop(1)

SpecAcquire == InitAcquire /\ [][AttemptAnywhere \/ CallOver]_vars

----------------------------------------------------------------------------
(* Claims about the strategy plan (SpecClassify) *)

\* the part of s between its first and its last chunk that is not a blank
Trimmed(s) ==
    LET I == {i \in 1..Len(s) : s[i] # " "}
    IN  IF I = {} THEN <<>>
        ELSE SubSeq(s, CHOOSE i \in I : \A j \in I : i <= j,
                       CHOOSE i \in I : \A j \in I : i >= j)

\* the labels of an order string, read left to right: a label ends at a comma or
\* at the end, and a label that is blank is not one
RECURSIVE ScanLabels(_, _, _)
ScanLabels(s, i, cur) ==
    LET emit == IF Trimmed(cur) = <<>> THEN <<>> ELSE <<Some(Trimmed(cur))>>
    IN  IF i > Len(s) THEN emit
        ELSE IF s[i] = "," THEN emit \o ScanLabels(s, i + 1, <<>>)
        ELSE ScanLabels(s, i + 1, Append(cur, s[i]))

ConfiguredLabels(order) == ScanLabels(order, 1, <<>>)

ThreeDefault == <<Some(<<"graphql">>), Some(<<"legacy">>), Some(<<"syndication">>)>>

OrderVar == environ["YTDLP_TWITTER_API_ORDER"]
OrderAbsent == ~OrderVar.some
OrderBlank == OrderVar.some /\ ConfiguredLabels(OrderVar.val) = <<>>

\* the single label of the fallback plan
SingleFallback ==
    IF environ["YTDLP_TWITTER_API"].some /\ environ["YTDLP_TWITTER_API"].val # <<>>
    THEN environ["YTDLP_TWITTER_API"]
    ELSE IF environ["TWITTER_API"].some /\ environ["TWITTER_API"].val # <<>>
    THEN environ["TWITTER_API"]
    ELSE Some(<<"syndication">>)

----------------------------------------------------------------------------
(* Claims about normalize_download_path (SpecNormalize) *)

\* C7: for a declared name whose extension is not .mp4, the result is the sibling
\* .mp4 path when that sibling exists and the declared file does not; in every
\* other case the result is the declared path.
C7_SiblingWhenDeclaredMissing ==
    Called =>
        LET sibling == File(input.path.stem, ".mp4")
        IN  IF /\ LowerSuffix(input.path.suffix) # ".mp4"
               /\ sibling \in DOMAIN input.fs
               /\ input.path \notin DOMAIN input.fs
            THEN Out = sibling
            ELSE Out = input.path

----------------------------------------------------------------------------
(* Claims about probing (SpecTranscode) *)

\* C8: whichever way the probe fails (tool not found, timeout, non-zero exit,
\* unparsable output, empty stream list), get_video_info returns the empty
\* properties and does not raise, so transcode_to_hevc does not fail of it.
C8_ProbeNeverFatal ==
    (Called /\ input.tools.probe \in ProbeFailures /\ Out.video_info # NotProbed) =>
        /\ ~Out.video_info.raised
        /\ Out.video_info.value = EmptyInfo
        /\ (input.tools.run.kind = "ok" /\ input.tools.run.writes => ~Out.raised)

----------------------------------------------------------------------------
(* Claims about the geometry decision (SpecDecide) *)

IsFixPlan(cmd) == cmd = SarFixArgs
IsRemuxPlan(cmd) == cmd = RemuxArgs

SarIs(s) == input.sample_aspect_ratio = Some(s)

\* C9 as stated: SAR "1:1" gives the remux, "4:3" the geometry fix, and "0:5"
\* the remux.
C9_AutoExamples ==
    Called =>
        /\ SarIs(SarOneOne) => IsRemuxPlan(Out)
        /\ SarIs(Sar43) => IsFixPlan(Out)
        /\ SarIs(Sar05) => IsRemuxPlan(Out)

\* C9 amended: SAR "1:1" gives the remux, "4:3" the geometry fix, and "0:5" the
\* geometry fix too (its denominator is positive and differs from its
\* numerator); it is a zero denominator, as in "5:0", that gives the remux.
C9_AutoExamplesAmended ==
    Called =>
        /\ SarIs(SarOneOne) => IsRemuxPlan(Out)
        /\ SarIs(Sar43) => IsFixPlan(Out)
        /\ SarIs(Sar05) => IsFixPlan(Out)
        /\ SarIs(<<"5", ":", "0">>) => IsRemuxPlan(Out)

C9_Witness == Called /\ SarIs(Sar05) /\ IsFixPlan(Out)

\* a decimal numeral, with blanks around it and a sign before it allowed
RefNumeral(t) ==
    \E a \in 1..Len(t), b \in 1..Len(t) :
        /\ a <= b
        /\ \A i \in 1..Len(t) : (i < a \/ i > b) => t[i] = " "
        /\ \/ \A i \in a..b : t[i] \in Digits
           \/ a < b /\ t[a] \in {"-", "+"} /\ \A i \in (a + 1)..b : t[i] \in Digits

RECURSIVE RefDigits(_, _)
RefDigits(t, acc) ==
    IF t = <<>> THEN acc
    ELSE IF Head(t) \in Digits
    THEN RefDigits(Tail(t), 10 * acc + DigitVal(Head(t)))
    ELSE RefDigits(Tail(t), acc)

RefValue(t) ==
    IF \E i \in 1..Len(t) : t[i] = "-" THEN 0 - RefDigits(t, 0) ELSE RefDigits(t, 0)

\* the reference rule: SAR present, not one of "1:1", "0:1", "N/A", "", of the
\* form numerator:denominator, denominator > 0, numerator # denominator
RefNeedsGeometryFix(sar) ==
    /\ sar.some
    /\ sar.val \notin {<<"1", ":", "1">>, <<"0", ":", "1">>, <<"N/A">>, <<>>}
    /\ \E i \in 1..Len(sar.val) :
          LET num == SubSeq(sar.val, 1, i - 1)
              den == SubSeq(sar.val, i + 1, Len(sar.val))
          IN  /\ sar.val[i] = ":"
              /\ \A j \in 1..Len(sar.val) : sar.val[j] = ":" => j = i
              /\ RefNumeral(num) /\ RefNumeral(den)
              /\ RefValue(den) > 0
              /\ RefValue(num) # RefValue(den)

HasOption(cmd, flag, value) ==
    \E i \in 1..(Len(cmd) - 1) : cmd[i] = flag /\ cmd[i + 1] = value
HasFlag(cmd, flag) == \E i \in 1..Len(cmd) : cmd[i] = flag

\* C10: the plan is the geometry-fix re-encode (scale and setsar=1, a fast
\* video-only encode, audio copied) exactly when the reference rule holds of the
\* probed SAR; in every other case (SAR absent, malformed) it is the stream-copy
\* remux with no re-encode.
C10_DecisionIsReferenceRule ==
    Called =>
        IF RefNeedsGeometryFix(input.sample_aspect_ratio)
        THEN /\ HasOption(Out, "-vf", "scale='trunc(iw*sar/2)*2:trunc(ih/2)*2',setsar=1")
             /\ HasOption(Out, "-c:v", "libx264")
             /\ HasOption(Out, "-preset", "ultrafast")
             /\ HasOption(Out, "-c:a", "copy")
             /\ ~HasOption(Out, "-c", "copy")
        ELSE /\ HasOption(Out, "-c", "copy")
             /\ ~HasFlag(Out, "-vf") /\ ~HasFlag(Out, "-c:v") /\ ~HasFlag(Out, "-preset")

C10_Witness ==
    /\ Called
    /\ SarIs(<<"3", ":", "-">>)
    /\ IsRemuxPlan(Out)

----------------------------------------------------------------------------
(* Claims about download_with_yt_dlp (SpecAcquire) *)

Calls == {call[m][1] : m \in {n \in Msgs : call[n] # NoCall}}

AllFailed(c) == \A i \in 1..Len(c.tried) : ~c.tried[i].ok

\* C1: on a classified URL, when every attempt of the plan has failed, the call
\* ends raising the error of the last attempt, whatever the plan's length and
\* whichever the failures.
C1_LastErrorRaised ==
    \A c \in Calls :
        (c.pc = "ended" /\ is_twitter_url(c.url) /\ AllFailed(c)) =>
            /\ c.result.raised
            /\ Len(c.tried) = Len(c.attempts)
            /\ c.result.exc.at = Len(c.attempts)
            /\ c.result.exc.type # ""

C1_Witness ==
    \E c \in Calls :
        /\ c.pc = "ended" /\ is_twitter_url(c.url) /\ AllFailed(c)
        /\ Len(c.attempts) = 3
        /\ c.result.exc.at = 3
        /\ c.result.exc.msg = "ffmpeg timed out after 5 minutes"

FailFailOk(c) ==
    /\ Len(c.tried) = 3
    /\ ~c.tried[1].ok /\ ~c.tried[2].ok /\ c.tried[3].ok

\* C2: on a classified URL whose first two attempts fail and whose third gets
\* through, the call returns the artifact of the third attempt and raises nothing.
C2_ThirdAttemptReturned ==
    \A c \in Calls :
        (c.pc = "ended" /\ is_twitter_url(c.url) /\ FailFailOk(c)) =>
            /\ ~c.result.raised
            /\ c.result.exc = NoExc
            /\ c.result.at = 3
            /\ Exists(c.fs, c.result.value)

C2_Witness ==
    \E c \in Calls :
        /\ c.pc = "ended" /\ is_twitter_url(c.url) /\ FailFailOk(c)
        /\ c.last_error.at = 2
        /\ ~c.result.raised

\* C3: for a URL that is not classified (an unparsable one too) the plan is one
\* attempt with no label, and when it fails the call ends with its error and no
\* further attempt, whatever the configured order.
C3_UnclassifiedOneAttempt ==
    \A c \in Calls :
        ~is_twitter_url(c.url) =>
            /\ c.attempts = <<None>>
            /\ Len(c.tried) <= 1
            /\ (Len(c.tried) = 1 /\ ~c.tried[1].ok) =>
                   /\ c.pc \in {"after_loop", "ended"}
                   /\ c.pc = "ended" => c.result.raised /\ c.result.exc.at = 1

C3_Witness ==
    \E c \in Calls :
        /\ c.url = BadUrl
        /\ environ["YTDLP_TWITTER_API_ORDER"] = Some(<<"legacy", ",", "graphql">>)
        /\ c.pc = "ended" /\ c.result.raised
        /\ Len(c.tried) = 1

\* C6: a call has one outcome, a returned path or a raised error of one of its
\* attempts; the attempts list is never empty, so the call never ends on the
\* "Download failed" of line 273.
C6_OneOutcome ==
    \A c \in Calls :
        /\ Len(c.attempts) >= 1
        /\ c.pc # "ended" => c.result = NoResult
        /\ c.pc = "ended" =>
              IF c.result.raised
              THEN /\ c.result.value = NoPath
                   /\ c.result.exc.at \in 1..Len(c.attempts)
                   /\ c.result.exc.msg # "Download failed"
              ELSE /\ c.result.value # NoPath
                   /\ c.result.exc = NoExc

C6_Witness ==
    \E c \in Calls :
        /\ environ["YTDLP_TWITTER_API_ORDER"] = Some(<<" ", ",">>)
        /\ is_twitter_url(c.url)
        /\ c.attempts = <<Some(<<"syndication">>)>>
        /\ c.pc = "ended" /\ c.result.raised

----------------------------------------------------------------------------
(* Claims about handle_message (Spec) *)

InsideWith ==
    { "downloading", "await_failed_edit", "await_too_large_edit",
      "await_send_video", "await_delete" }

\* C5: the working directory of a URL is gone, with all it holds, once its
\* processing has left the with block, however it was left (delivery, every
\* strategy failed, transcode failure, no output file, artifact too large, a
\* failed send), in every interleaving of the handlers.
C5_TmpDirRemoved ==
    \A m \in Msgs : pc[m] \notin InsideWith => tmp_dir[m] = <<>>

C5_Witness ==
    /\ pc[1] = "await_delete"
    /\ tmp_dir[1] # <<>> /\ Exists(tmp_dir[1][1], Part) /\ Exists(tmp_dir[1][1], Mp4)
    /\ pc[2] = "await_error_edit" /\ tmp_dir[2] = <<>>

----------------------------------------------------------------------------
(* The probe of a file and the decision taken on it, lines 129-136, 173-215 *)

\* A media file: the properties of its first video stream.
MediaFile(codec, w, h, sar) ==
    [codec_name |-> codec, width |-> w, height |-> h, sample_aspect_ratio |-> sar]

\* -show_entries stream=width,height,sample_aspect_ratio,display_aspect_ratio
\* (line 133): what ffprobe reports of the file; codec_name is not asked for
show_entries(file) == Stream(file.width, file.height, file.sample_aspect_ratio)

\* video_info.get("width", 0), video_info.get("height", 0)
WidthOf(video_info) == IF video_info.width.some THEN video_info.width.val ELSE 0
HeightOf(video_info) == IF video_info.height.some THEN video_info.height.val ELSE 0

Codecs == {"h264", "hevc", "vp9", "av1"}
MediaFiles == {MediaFile(c, w, h, sar) : c \in Codecs, w \in Dims, h \in Dims, sar \in FewSars}

\* the ffmpeg arguments as a function of the file that is probed
InitCodec ==
    /\ input \in MediaFiles
    /\ output = NotCalled
    /\ environ = NoEnv
    /\ Idle

ProbeAndDecide ==
    /\ ~Called
    /\ output' = <<ffmpeg_args(get_video_info(ProbeOk(show_entries(input))).value)>>
    /\ UNCHANGED <<input, environ, idleVars>>

SpecCodec == InitCodec /\ [][ProbeAndDecide]_vars

----------------------------------------------------------------------------
(* Claims about codec and geometry (SpecCodec, SpecDecide) *)

\* the command re-encodes the video stream: a video encoder is chosen and the
\* streams are not all copied
IsReencode(cmd) == HasFlag(cmd, "-c:v") /\ ~HasOption(cmd, "-c:v", "copy") /\ ~HasOption(cmd, "-c", "copy")

\* C11: codec compatibility is judged apart from geometry: a file with square SAR
\* ("1:1") is re-encoded, not stream-copied, when its video codec is not h264 or
\* hevc (vp9, say), and is not re-encoded when its codec is h264 or hevc.
C11_CodecJudgedIndependently ==
    (Called /\ input.sample_aspect_ratio = Some(SarOneOne)) =>
        IF input.codec_name \in {"h264", "hevc"}
        THEN ~IsReencode(Out)
        ELSE IsReencode(Out)

\* C12: a probed width or height of 0 never gives the geometry fix: whatever the
\* SAR, the plan is the stream-copy remux.
C12_NoGeometryNoFix ==
    (Called /\ (WidthOf(input) = 0 \/ HeightOf(input) = 0)) => IsRemuxPlan(Out)

----------------------------------------------------------------------------
(* Claims about the produced artifact (SpecAcquire) *)

\* C13: the output of the transcoder is rejected when it does not exist and when
\* it exists with zero size, so a path that download_with_yt_dlp returns is that
\* of a file that exists and is not empty.
C13_ZeroByteOutputRejected ==
    \A c \in Calls :
        (c.pc = "ended" /\ ~c.result.raised) =>
            /\ Exists(c.fs, c.result.value)
            /\ c.fs[c.result.value] > 0

----------------------------------------------------------------------------
(* The delivery gate on its own, lines 320-343 *)

MiB == 1024 * 1024

GateSizes ==
    { 0, 1, MiB, 40 * MiB, HostedMax - 1, HostedMax, HostedMax + 1, 51 * MiB,
      60 * MiB, 100 * MiB, 1000 * MiB, 1999 * MiB, LocalMax - 1, LocalMax,
      LocalMax + 1, 2001 * MiB, 2047 * MiB }

LocalUrls == { None, Some(<<>>), Some(<<"http://localhost:8081">>) }

\* the gate as a function of the directory, the path returned and the environment
InitGate ==
    /\ \E fs \in {NoFiles} \cup {One(p, sz) : p \in {Mp4, OutputPath(Mp4)}, sz \in GateSizes},
          local \in LocalUrls :
          input = [fs |-> fs, path |-> OutputPath(Mp4),
                   env |-> [NoEnv EXCEPT !["TELEGRAM_LOCAL_API_URL"] = local]]
    /\ output = NotCalled
    /\ environ = NoEnv
    /\ Idle

Gate ==
    /\ ~Called
    /\ output' = <<delivery_gate(input.fs, input.path, input.env)>>
    /\ UNCHANGED <<input, environ, idleVars>>

SpecGate == InitGate /\ [][Gate]_vars

----------------------------------------------------------------------------
(* Claims about the delivery gate (SpecGate) *)

\* the local transport is configured: TELEGRAM_LOCAL_API_URL names a server
LocalConfigured == input.env["TELEGRAM_LOCAL_API_URL"] \notin {None, Some(<<>>)}

\* the transport ceiling in bytes: 2000 MiB under Local, 50 MiB under Hosted
Ceiling == IF LocalConfigured THEN 2000 * 1048576 ELSE 50 * 1048576

GateSize == input.fs[input.path]
Forwarded == Out = "await_send_video"

\* C14: an artifact goes through the gate exactly when its size is at most the
\* transport ceiling, 2000 MiB when the local transport is configured and 50 MiB
\* otherwise: 60 MiB does not fit under Hosted and fits under Local, 40 MiB fits
\* under both, and a size equal to the ceiling fits.
C14_GateAtCeiling ==
    (Called /\ Exists(input.fs, input.path)) =>
        /\ Forwarded <=> GateSize <= Ceiling
        /\ ~Forwarded <=> Out = "await_too_large_edit"
        /\ GateSize = 60 * 1048576 => (Forwarded <=> LocalConfigured)
        /\ GateSize = 40 * 1048576 => Forwarded
        /\ GateSize = Ceiling => Forwarded

C14_Witness ==
    /\ Called /\ Exists(input.fs, input.path)
    /\ ~LocalConfigured
    /\ GateSize = 50 * 1048576
    /\ Forwarded

----------------------------------------------------------------------------
(* Claims about the event loop (Spec) *)

\* a step of the handler of message n that is not part of a download
HandlerStep(n) ==
    \/ Receive(n) \/ Replied(n) \/ StatusAnswered(n) \/ ChatActionSent(n)
    \/ Rejected(n) \/ VideoSent(n) \/ StatusDeleted(n) \/ ErrorShown(n)

\* C15: download and transcode run off the event loop: while the download of one
\* message is in flight, the handler of every other message that has something
\* to do (start on its message, go on after an await) can take its step.
C15_DownloadOffTheLoop ==
    \A m \in Msgs, n \in Msgs :
        (m # n /\ pc[m] = "downloading" /\ pc[n] \notin {"done", "downloading"}) =>
            ENABLED HandlerStep(n)

----------------------------------------------------------------------------
(* Claims about the cookie store (Spec) *)

CookiesConfigured == environ["YTDLP_COOKIES_FILE"] \notin {None, Some(<<>>)}

\* C16: the shared cookie file is never written and never handed to the
\* downloader: every attempt of a request with cookies configured copies it into
\* the request's own working directory and hands the downloader that copy, so no
\* two requests use the same cookie path, in every interleaving of the handlers.
C16_SharedCookiesUntouched ==
    /\ cookie_store = "original"
    /\ \A m \in Msgs :
          /\ cookiefile[m].some =>
                /\ cookiefile[m].val # CookiePath(<<>>, environ["YTDLP_COOKIES_FILE"].val)
                /\ cookiefile[m].val.dir = TmpDirName(m)
                /\ tmp_dir[m] # <<>> /\ Exists(tmp_dir[m][1], CookiesTxt)
          /\ (CookiesConfigured /\ call[m] # NoCall /\ call[m][1].made >= 1) =>
                cookiefile[m].some
    /\ \A m \in Msgs, n \in Msgs :
          (m # n /\ cookiefile[m].some /\ cookiefile[n].some) =>
              cookiefile[m].val # cookiefile[n].val

C16_Witness ==
    /\ CookiesConfigured
    /\ pc[1] = "await_send_video" /\ cookiefile[1].some
    /\ pc[2] = "downloading" /\ call[2][1].made = 2 /\ cookiefile[2].some
    /\ cookie_store = "original"

----------------------------------------------------------------------------
(* Claims about the order of the attempts (SpecAcquire) *)

\* C17: the fallback is strict and ordered: the iterations run are the entries of
\* the plan from the first on, in plan order, none skipped and none run twice
\* (a label the configured order lists twice is two entries), and no iteration
\* runs after one has got through and returned an artifact.
C17_StrictOrderedFallback ==
    \A c \in Calls :
        /\ Len(c.tried) <= Len(c.attempts)
        /\ c.made = Len(c.tried)
        /\ \A i \in 1..Len(c.tried) :
              /\ c.tried[i].api = c.attempts[i]
              /\ c.tried[i].ok =>
                    /\ i = Len(c.tried)
                    /\ c.pc = "ended" /\ ~c.result.raised /\ c.result.at = i
        /\ c.pc = "attempt" => Len(c.tried) < Len(c.attempts)

C17_Witness ==
    \E c \in Calls :
        /\ c.attempts = <<Some(<<"legacy">>), Some(<<"graphql">>)>>
        /\ Len(c.tried) = 2
        /\ ~c.tried[1].ok /\ c.tried[1].api = Some(<<"legacy">>)
        /\ c.tried[2].ok /\ c.tried[2].api = Some(<<"graphql">>)
        /\ c.pc = "ended"

\* an iteration in which yt-dlp delivered and a later step of the try body raised
PostDownloadFailure(t) == t.downloaded /\ ~t.ok

\* C20: a failure after a successful download (normalizing, probing, transcoding)
\* is handled as a download failure is: on a classified URL with entries left the
\* call goes on to the next one and downloads again, and the error is raised only
\* when it is that of the last attempt; on an unclassified URL the call ends at
\* once with that error.
C20_PostDownloadFailureFallsBack ==
    \A c \in Calls :
        \A i \in 1..Len(c.tried) :
            PostDownloadFailure(c.tried[i]) =>
                IF is_twitter_url(c.url)
                THEN /\ (i = Len(c.tried) /\ i < Len(c.attempts)) => c.pc = "attempt"
                     /\ (i = Len(c.tried) /\ i = Len(c.attempts)) =>
                            /\ c.pc \in {"after_loop", "ended"}
                            /\ c.pc = "ended" => c.result.raised /\ c.result.exc.at = i
                     /\ (c.pc = "ended" /\ c.result.raised) =>
                            /\ c.result.exc.at = Len(c.attempts)
                            /\ i < Len(c.attempts) => c.result.exc.at # i
                ELSE /\ Len(c.tried) = 1
                     /\ c.pc \in {"after_loop", "ended"}
                     /\ c.pc = "ended" =>
                            /\ c.result.raised
                            /\ c.result.exc.at = 1
                            /\ c.result.exc.type # "DownloadError"

C20_Witness ==
    \E c \in Calls :
        /\ is_twitter_url(c.url)
        /\ Len(c.tried) = 2
        /\ PostDownloadFailure(c.tried[1])
        /\ c.last_error.msg = "ffmpeg did not produce output file"
        /\ c.tried[2].downloaded /\ c.tried[2].ok
        /\ c.pc = "ended" /\ ~c.result.raised

----------------------------------------------------------------------------
(* Claims about the errors of transcode_to_hevc (SpecTranscode) *)

\* ffmpeg was run: a command was built for it
FfmpegRan == Out.cmd # <<>>

\* C18: transcode_to_hevc fails with an error of its own for each of: ffmpeg not
\* found, ffmpeg exiting non-zero, ffmpeg timing out; and the error of a non-zero
\* exit quotes at most the first 500 characters of the tool's output, however
\* long that is.
C18_DistinctTranscodeErrors ==
    Called =>
        /\ ~input.tools.ffmpeg <=> (Out.raised /\ Out.exc.msg = "ffmpeg not found")
        /\ (FfmpegRan /\ input.tools.run.kind = "failed") <=>
               (Out.raised /\ Out.exc.msg = "ffmpeg failed")
        /\ (FfmpegRan /\ input.tools.run.kind = "timeout") <=>
               (Out.raised /\ Out.exc.msg = "ffmpeg timed out after 5 minutes")
        /\ Out.exc.detail <= 500
        /\ (Out.raised /\ Out.exc.msg = "ffmpeg failed") =>
               Out.exc.detail = IF input.tools.run.stderr <= 500
                                THEN input.tools.run.stderr ELSE 500

C18_Witness ==
    /\ Called /\ FfmpegRan
    /\ input.tools.run.kind = "failed" /\ input.tools.run.stderr = 501
    /\ Out.raised /\ Out.exc.detail = 500

----------------------------------------------------------------------------
(* is_twitter_url on its own, lines 60-67 *)

\* the chunks of a netloc: labels of a host in either case, userinfo, a port
NetlocChunks ==
    { "www.", "WWW.", "mobile.", "twitter.com", "Twitter.com", "x.com", "X.COM",
      "youtube.com", "tiktok.com", "user@", ":443" }

Netlocs == SeqsUpTo(NetlocChunks, MaxNetlocLen)

InitHost ==
    /\ input \in {BadUrl} \cup {Url(n) : n \in Netlocs}
    /\ output = NotCalled
    /\ environ = NoEnv
    /\ Idle

Classified ==
    /\ ~Called
    /\ output' = <<is_twitter_url(input)>>
    /\ UNCHANGED <<input, environ, idleVars>>

SpecHost == InitHost /\ [][Classified]_vars

----------------------------------------------------------------------------
(* Claims about is_twitter_url (SpecHost) *)

\* the last index of s that holds chunk c, 0 when none does
LastIndexOf(s, c) ==
    IF \E i \in 1..Len(s) : s[i] = c
    THEN CHOOSE i \in 1..Len(s) : s[i] = c /\ \A j \in (i + 1)..Len(s) : s[j] # c
    ELSE 0

\* the host of a netloc [userinfo@]host[:port]
RefHost(netloc) ==
    LET rest == SubSeq(netloc, LastIndexOf(netloc, "user@") + 1, Len(netloc))
        ports == {i \in 1..Len(rest) : rest[i] = ":443"}
    IN  IF ports = {} THEN rest
        ELSE SubSeq(rest, 1, (CHOOSE i \in ports : \A j \in ports : i <= j) - 1)

\* two chunks that differ in case at most
SameLabel(a, b) ==
    \/ a = b
    \/ {a, b} \in {{"www.", "WWW."}, {"twitter.com", "Twitter.com"}, {"x.com", "X.COM"}}

SameHost(g, h) == Len(g) = Len(h) /\ \A i \in 1..Len(g) : SameLabel(g[i], h[i])

RefPlatformHost(h) ==
    \/ SameHost(h, <<"twitter.com">>) \/ SameHost(h, <<"x.com">>)
    \/ SameHost(h, <<"mobile.", "twitter.com">>) \/ SameHost(h, <<"mobile.", "x.com">>)

\* C19: a URL is classified exactly when its host, compared without regard to
\* case and with one leading "www." label stripped, is twitter.com, x.com,
\* mobile.twitter.com or mobile.x.com; every other host, and a URL that does not
\* parse, gives false and no error.
C19_ClassifiedByHost ==
    Called =>
        /\ Out \in BOOLEAN
        /\ Out <=>
              /\ input.parses
              /\ LET h == RefHost(input.netloc)
                 IN  IF h # <<>> /\ SameLabel(Head(h), "www.")
                     THEN RefPlatformHost(Tail(h))
                     ELSE RefPlatformHost(h)

----------------------------------------------------------------------------
(* Claims about forwarding (Spec) *)

\* the transport ceiling of the handlers' environment, in bytes
HandlerCeiling ==
    IF environ["TELEGRAM_LOCAL_API_URL"] \notin {None, Some(<<>>)}
    THEN 2000 * 1048576
    ELSE 50 * 1048576

\* C21: send_video is called only on a path that download_with_yt_dlp returned
\* without raising, of a file that exists and whose size is within the transport
\* ceiling; the working directory exists while the forward is under way, and is
\* removed only once the forward is over, completed or failed.
C21_ForwardGated ==
    \A m \in Msgs :
        /\ pc[m] = "await_send_video" =>
              /\ call[m] = NoCall /\ artifact[m] # <<>>
              /\ tmp_dir[m] # <<>>
              /\ Exists(tmp_dir[m][1], artifact[m][1])
              /\ tmp_dir[m][1][artifact[m][1]] <= HandlerCeiling
        /\ pc[m] = "await_delete" => tmp_dir[m] # <<>> /\ artifact[m] # <<>>
        /\ artifact[m] # <<>> =>
              pc[m] \in { "await_failed_edit", "await_too_large_edit",
                          "await_send_video", "await_delete" }

C21_Witness ==
    /\ HandlerCeiling = 2000 * 1048576
    /\ pc[1] = "await_send_video"
    /\ tmp_dir[1][1][artifact[1][1]] = 50 * 1048576 + 1
    /\ pc[2] = "await_error_edit" /\ artifact[2] = <<>>

----------------------------------------------------------------------------
(* Claims about a message with several URLs (Spec) *)

\* the positions of a handler that is working on one of its URLs
UrlRound ==
    { "await_status", "await_chat_action", "downloading", "await_failed_edit",
      "await_too_large_edit", "await_send_video", "await_delete", "await_error_edit" }

\* C22: the URLs of a message are taken one after the other, each in a working
\* directory of its own that starts empty and is removed before the next URL is
\* started, and whatever happens to one URL, the handler does not end while URLs
\* of the message are left.
C22_EveryUrlProcessed ==
    [][\A m \in Msgs :
          /\ (pc[m] \in UrlRound /\ todo'[m] # todo[m]) => todo'[m] = todo[m] - 1
          /\ (tmp_dir[m] = <<>> /\ tmp_dir'[m] # <<>>) => tmp_dir'[m] = <<NoFiles>>
          /\ pc'[m] \in {"await_status", "done"} => tmp_dir'[m] = <<>>
          /\ (pc[m] \in UrlRound /\ todo[m] > 1) => pc'[m] # "done"]_vars

====
